---- MODULE Spec2Model ----
(***************************************************************************)
(* OpenSSH public keys (pubkey.rs): decoding a key from text or from its   *)
(* wire body, re-encoding it, its size in bits and its fingerprint.        *)
(*                                                                         *)
(* Bytes are naturals below 256, byte strings and texts are sequences of   *)
(* them (a text is the sequence of its ASCII codes).  Option<T> is a       *)
(* sequence of length 0 (None) or 1 (Some).  Result<T> is a record with    *)
(* ok = TRUE and val, or ok = FALSE and err.                               *)
(***************************************************************************)
EXTENDS Integers, Sequences, FiniteSets

\* Bound on the total number of payload and trailing bytes of a wire body.
MaxTotal == 3

\* Bound on the payload bytes of the bodies that are truncated or put in text.
MaxSmallTotal == 1

\* Bound on the number of comment tokens of an input text.
MaxCommentTokens == 2

\* The byte values the field payloads are drawn from: zero, a small value,
\* and a value whose high bit is set.
ByteVals == {0, 1, 128}

-----------------------------------------------------------------------------
(* Texts. *)

\* "ssh-rsa"
ssh_rsa ==
    <<115, 115, 104, 45, 114, 115, 97>>

\* "ssh-dss"
ssh_dss ==
    <<115, 115, 104, 45, 100, 115, 115>>

\* "ecdsa-sha2-nistp256"
ecdsa_sha2_nistp256 ==
    <<101, 99, 100, 115, 97, 45, 115, 104, 97, 50, 45, 110, 105, 115, 116, 112, 50, 53, 54>>

\* "ecdsa-sha2-nistp384"
ecdsa_sha2_nistp384 ==
    <<101, 99, 100, 115, 97, 45, 115, 104, 97, 50, 45, 110, 105, 115, 116, 112, 51, 56, 52>>

\* "ecdsa-sha2-nistp521"
ecdsa_sha2_nistp521 ==
    <<101, 99, 100, 115, 97, 45, 115, 104, 97, 50, 45, 110, 105, 115, 116, 112, 53, 50, 49>>

\* "ssh-ed25519"
ssh_ed25519 ==
    <<115, 115, 104, 45, 101, 100, 50, 53, 53, 49, 57>>

\* "-cert-v01@openssh.com"
cert_suffix ==
    <<45, 99, 101, 114, 116, 45, 118, 48, 49, 64, 111, 112, 101, 110, 115, 115, 104, 46, 99, 111, 109>>

\* "ssh-bogus", a name that is not a key type
ssh_bogus ==
    <<115, 115, 104, 45, 98, 111, 103, 117, 115>>

\* "nistp256"
nistp256 ==
    <<110, 105, 115, 116, 112, 50, 53, 54>>

\* "nistp384"
nistp384 ==
    <<110, 105, 115, 116, 112, 51, 56, 52>>

\* "nistp521"
nistp521 ==
    <<110, 105, 115, 116, 112, 53, 50, 49>>

\* "nistp999", an identifier that is not a curve
nistp999 ==
    <<110, 105, 115, 116, 112, 57, 57, 57>>

\* "SHA256"
SHA256 ==
    <<83, 72, 65, 50, 53, 54>>

\* "SHA384"
SHA384 ==
    <<83, 72, 65, 51, 56, 52>>

\* "SHA512"
SHA512 ==
    <<83, 72, 65, 53, 49, 50>>

-----------------------------------------------------------------------------
(* Option and Result. *)

None == <<>>

Some(v) == <<v>>

Ok(v) == [ok |-> TRUE, val |-> v]

\* Error::with_kind(kind); arg is the name an UnknownKeyType or UnknownCurve
\* carries, empty for the other kinds.
Err(kind, arg) == [ok |-> FALSE, err |-> [kind |-> kind, arg |-> arg]]

-----------------------------------------------------------------------------
(* Reader: a cursor (buf, off) over a byte buffer; off counts the bytes    *)
(* consumed.  Every read returns its result and the cursor after it.       *)

ReadOk(v, off) == [ok |-> TRUE, val |-> v, off |-> off]

ReadErr(kind, off) == [ok |-> FALSE, err |-> [kind |-> kind, arg |-> <<>>], off |-> off]

\* Exactly 4 bytes, big-endian; Truncated if fewer than 4 remain.
read_u32(buf, off) ==
    IF Len(buf) - off < 4
    THEN ReadErr("Truncated", off)
    ELSE ReadOk(((buf[off + 1] * 256 + buf[off + 2]) * 256 + buf[off + 3]) * 256
                    + buf[off + 4],
                off + 4)

\* A u32 length, then that many bytes; `kind` is the error of a declared
\* length that exceeds the remaining input.
read_blob(buf, off, kind) ==
    LET n == read_u32(buf, off) IN
    IF ~n.ok THEN n
    ELSE IF n.val > Len(buf) - n.off
         THEN ReadErr(kind, n.off)
         ELSE ReadOk(SubSeq(buf, n.off + 1, n.off + n.val), n.off + n.val)

read_bytes(buf, off) == read_blob(buf, off, "Truncated")

read_string(buf, off) == read_blob(buf, off, "InvalidFormat")

\* The length-prefixed bytes, returned as they are.
read_mpint(buf, off) == read_bytes(buf, off)

-----------------------------------------------------------------------------
(* Writer: an append-only buffer; every write returns the buffer after it. *)

Writer_new == <<>>

write_u32(w, v) ==
    w \o << (v \div 16777216) % 256, (v \div 65536) % 256, (v \div 256) % 256, v % 256 >>

write_bytes(w, b) == write_u32(w, Len(b)) \o b

write_string(w, s) == write_bytes(w, s)

\* One 0x00 in front when the first byte's high bit is set.
write_mpint(w, m) ==
    IF Len(m) > 0 /\ m[1] >= 128
    THEN write_bytes(w, <<0>> \o m)
    ELSE write_bytes(w, m)

into_bytes(w) == w

-----------------------------------------------------------------------------
(* KeyType registry. *)

KeyTypeOf(plain, kind, is_cert) ==
    [name  |-> IF is_cert THEN plain \o cert_suffix ELSE plain,
     plain |-> plain,
     kind  |-> IF is_cert THEN kind \o "Cert" ELSE kind]

KeyTypes ==
    { KeyTypeOf(p[1], p[2], c) :
        p \in { <<ssh_rsa, "Rsa">>, <<ssh_dss, "Dsa">>,
                <<ecdsa_sha2_nistp256, "Ecdsa">>, <<ecdsa_sha2_nistp384, "Ecdsa">>,
                <<ecdsa_sha2_nistp521, "Ecdsa">>, <<ssh_ed25519, "Ed25519">> },
        c \in BOOLEAN }

\* KeyType::from_name: exact match against the table.
KeyType_from_name(name) ==
    IF \E kt \in KeyTypes : kt.name = name
    THEN Ok(CHOOSE kt \in KeyTypes : kt.name = name)
    ELSE Err("UnknownKeyType", name)

\* The algorithm family of a key type kind, which is also the tag of the
\* PublicKeyKind variant that holds such a key.
Family(kind) ==
    CASE kind \in {"Rsa", "RsaCert"}         -> "Rsa"
      [] kind \in {"Dsa", "DsaCert"}         -> "Dsa"
      [] kind \in {"Ecdsa", "EcdsaCert"}     -> "Ecdsa"
      [] kind \in {"Ed25519", "Ed25519Cert"} -> "Ed25519"

-----------------------------------------------------------------------------
(* Curve registry. *)

Curve_from_identifier(id) ==
    IF id = nistp256 THEN Ok([kind |-> "Nistp256", identifier |-> nistp256])
    ELSE IF id = nistp384 THEN Ok([kind |-> "Nistp384", identifier |-> nistp384])
    ELSE IF id = nistp521 THEN Ok([kind |-> "Nistp521", identifier |-> nistp521])
    ELSE Err("UnknownCurve", id)

-----------------------------------------------------------------------------
(* base64 (standard alphabet, with padding). *)

\* '='
PadChar == 61

\* The character of a 6-bit value.
B64Char(v) ==
    IF v < 26 THEN 65 + v
    ELSE IF v < 52 THEN 97 + (v - 26)
    ELSE IF v < 62 THEN 48 + (v - 52)
    ELSE IF v = 62 THEN 43
    ELSE 47

\* The 6-bit value of a character, -1 if it is not of the alphabet.
B64Val(c) ==
    IF c >= 65 /\ c <= 90 THEN c - 65
    ELSE IF c >= 97 /\ c <= 122 THEN c - 97 + 26
    ELSE IF c >= 48 /\ c <= 57 THEN c - 48 + 52
    ELSE IF c = 43 THEN 62
    ELSE IF c = 47 THEN 63
    ELSE -1

RECURSIVE base64_encode(_)
base64_encode(b) ==
    IF Len(b) = 0 THEN <<>>
    ELSE IF Len(b) = 1
    THEN << B64Char(b[1] \div 4), B64Char((b[1] % 4) * 16), PadChar, PadChar >>
    ELSE IF Len(b) = 2
    THEN << B64Char(b[1] \div 4), B64Char((b[1] % 4) * 16 + b[2] \div 16),
            B64Char((b[2] % 16) * 4), PadChar >>
    ELSE << B64Char(b[1] \div 4), B64Char((b[1] % 4) * 16 + b[2] \div 16),
            B64Char((b[2] % 16) * 4 + b[3] \div 64), B64Char(b[3] % 64) >>
         \o base64_encode(SubSeq(b, 4, Len(b)))

\* The bytes of one group of four characters; the group is well formed.
B64Group(g) ==
    LET a == B64Val(g[1])
        b == B64Val(g[2])
        c == B64Val(g[3])
        d == B64Val(g[4])
    IN  IF g[3] = PadChar THEN << a * 4 + b \div 16 >>
        ELSE IF g[4] = PadChar THEN << a * 4 + b \div 16, (b % 16) * 16 + c \div 4 >>
        ELSE << a * 4 + b \div 16, (b % 16) * 16 + c \div 4, (c % 4) * 64 + d >>

\* Whether s is base64 text: a whole number of groups of alphabet
\* characters, padding only at the end of the last group.
B64WellFormed(s) ==
    /\ Len(s) % 4 = 0
    /\ \A i \in 1..Len(s) :
          \/ B64Val(s[i]) >= 0
          \/ /\ s[i] = PadChar
             /\ i >= Len(s) - 1
             /\ i = Len(s) - 1 => s[Len(s)] = PadChar

RECURSIVE B64Bytes(_)
B64Bytes(s) ==
    IF Len(s) = 0 THEN <<>>
    ELSE B64Group(SubSeq(s, 1, 4)) \o B64Bytes(SubSeq(s, 5, Len(s)))

base64_decode(s) ==
    IF B64WellFormed(s) THEN Ok(B64Bytes(s)) ELSE Err("Base64Error", <<>>)

-----------------------------------------------------------------------------
(* Fingerprint. *)

FingerprintKinds == {"Sha256", "Sha384", "Sha512"}

\* The digest size in bytes of each hash.
DigestLen(kind) ==
    CASE kind = "Sha256" -> 32
      [] kind = "Sha384" -> 48
      [] kind = "Sha512" -> 64

RECURSIVE ByteSum(_)
ByteSum(b) == IF Len(b) = 0 THEN 0 ELSE b[1] + ByteSum(Tail(b))

\* Sha256::digest / Sha384::digest / Sha512::digest.  The hash is opaque:
\* the model takes in its place a function of the data with the digest
\* size of the hash, whose bytes vary with the data and the position.
Digest(kind, data) ==
    LET seed == ByteSum(data) * 31 + Len(data) * 7 + DigestLen(kind) IN
    [i \in 1..DigestLen(kind) |-> (seed + i * 13) % 256]

\* String::find('='): the 0-based offset of the first '=', if any.
FindPad(s) ==
    IF \E i \in 1..Len(s) : s[i] = PadChar
    THEN Some((CHOOSE i \in 1..Len(s) :
                  s[i] = PadChar /\ \A j \in 1..(i - 1) : s[j] # PadChar) - 1)
    ELSE None

\* Fingerprint::compute without the trimming of the padding.
Fingerprint_compute_untrimmed(kind, data) ==
    [kind |-> kind, hash |-> base64_encode(Digest(kind, data))]

Fingerprint_compute(kind, data) ==
    LET digest  == Digest(kind, data)
        encoded == base64_encode(digest)
        found   == FindPad(encoded)
        hash    == IF found # None THEN SubSeq(encoded, 1, found[1]) ELSE encoded
    IN  [kind |-> kind, hash |-> hash]

FingerprintKind_Display(kind) ==
    CASE kind = "Sha256" -> SHA256
      [] kind = "Sha384" -> SHA384
      [] kind = "Sha512" -> SHA512

\* ':'
Colon == 58

Fingerprint_Display(fp) == FingerprintKind_Display(fp.kind) \o <<Colon>> \o fp.hash

-----------------------------------------------------------------------------
(* PublicKey. *)

\* The characters str::split_whitespace splits on: tab, line feed, vertical
\* tab, form feed, carriage return, space.
IsWhitespace(c) == c \in {9, 10, 11, 12, 13, 32}

\* str::split_whitespace: the maximal runs of characters that are not
\* whitespace, in order.  A run starts where a character that is not
\* whitespace follows whitespace or the start, and ends likewise.
split_whitespace(s) ==
    LET starts == { i \in 1..Len(s) :
                      ~IsWhitespace(s[i]) /\ (i = 1 \/ IsWhitespace(s[i - 1])) }
        ends   == { i \in 1..Len(s) :
                      ~IsWhitespace(s[i]) /\ (i = Len(s) \/ IsWhitespace(s[i + 1])) }
        nth(S, k) == CHOOSE i \in S : Cardinality({ j \in S : j < i }) = k - 1
    IN  [k \in 1..Cardinality(starts) |-> SubSeq(s, nth(starts, k), nth(ends, k))]

\* A result of decoding a key: the key or the error, and the reader's
\* cursor and the length of its buffer when decoding ended.
KeyOk(key, off, len) == [ok |-> TRUE, val |-> key, off |-> off, len |-> len]

KeyErr(err, off, len) == [ok |-> FALSE, err |-> err, off |-> off, len |-> len]

PublicKeyOf(kt, kind, comment) == [key_type |-> kt, kind |-> kind, comment |-> comment]

\* The Rsa arm reading the modulus before the exponent.
ReadRsaSwapped(buf, off) ==
    LET n == read_mpint(buf, off) IN
    IF ~n.ok THEN n ELSE
    LET e == read_mpint(buf, n.off) IN
    IF ~e.ok THEN e ELSE
    ReadOk([tag |-> "Rsa", e |-> e.val, n |-> n.val], e.off)

\* The Rsa arm of from_reader: e, then n.
ReadRsa(buf, off) ==
    LET e == read_mpint(buf, off) IN
    IF ~e.ok THEN e ELSE
    LET n == read_mpint(buf, e.off) IN
    IF ~n.ok THEN n ELSE
    ReadOk([tag |-> "Rsa", e |-> e.val, n |-> n.val], n.off)

\* The Dsa arm of from_reader: p, q, g, then y.
ReadDsa(buf, off) ==
    LET p == read_mpint(buf, off) IN
    IF ~p.ok THEN p ELSE
    LET q == read_mpint(buf, p.off) IN
    IF ~q.ok THEN q ELSE
    LET g == read_mpint(buf, q.off) IN
    IF ~g.ok THEN g ELSE
    LET y == read_mpint(buf, g.off) IN
    IF ~y.ok THEN y ELSE
    ReadOk([tag |-> "Dsa", p |-> p.val, q |-> q.val, g |-> g.val, y |-> y.val], y.off)

\* The Ecdsa arm of from_reader: the curve identifier, the curve, the key.
ReadEcdsa(buf, off) ==
    LET identifier == read_string(buf, off) IN
    IF ~identifier.ok THEN identifier ELSE
    LET curve == Curve_from_identifier(identifier.val) IN
    IF ~curve.ok THEN [ok |-> FALSE, err |-> curve.err, off |-> identifier.off] ELSE
    LET key == read_bytes(buf, identifier.off) IN
    IF ~key.ok THEN key ELSE
    ReadOk([tag |-> "Ecdsa", curve |-> curve.val, key |-> key.val], key.off)

\* The Ed25519 arm returning a key without bytes when the key cannot be read.
ReadEd25519Partial(buf, off) ==
    LET key == read_bytes(buf, off) IN
    IF ~key.ok THEN ReadOk([tag |-> "Ed25519", key |-> <<>>], key.off) ELSE
    ReadOk([tag |-> "Ed25519", key |-> key.val], key.off)

\* The Ed25519 arm of from_reader: the key.
ReadEd25519(buf, off) ==
    LET key == read_bytes(buf, off) IN
    IF ~key.ok THEN key ELSE
    ReadOk([tag |-> "Ed25519", key |-> key.val], key.off)

\* from_reader with the fields of a DsaCert key read by the Rsa arm.
from_reader_wrong_arm(kt_name, buf, off) ==
    LET kt == KeyType_from_name(kt_name) IN
    IF ~kt.ok THEN KeyErr(kt.err, off, Len(buf)) ELSE
    LET kind ==
            CASE kt.val.kind \in {"Rsa", "RsaCert", "DsaCert"} -> ReadRsa(buf, off)
              [] kt.val.kind \in {"Dsa"}                        -> ReadDsa(buf, off)
              [] kt.val.kind \in {"Ecdsa", "EcdsaCert"}         -> ReadEcdsa(buf, off)
              [] kt.val.kind \in {"Ed25519", "Ed25519Cert"}     -> ReadEd25519(buf, off)
    IN
    IF ~kind.ok THEN KeyErr(kind.err, kind.off, Len(buf)) ELSE
    KeyOk(PublicKeyOf(kt.val, kind.val, None), kind.off, Len(buf))

\* PublicKey::from_reader, the reader being the cursor (buf, off).
from_reader(kt_name, buf, off) ==
    LET kt == KeyType_from_name(kt_name) IN
    IF ~kt.ok THEN KeyErr(kt.err, off, Len(buf)) ELSE
    LET kind ==
            CASE kt.val.kind \in {"Rsa", "RsaCert"}         -> ReadRsa(buf, off)
              [] kt.val.kind \in {"Dsa", "DsaCert"}         -> ReadDsa(buf, off)
              [] kt.val.kind \in {"Ecdsa", "EcdsaCert"}     -> ReadEcdsa(buf, off)
              [] kt.val.kind \in {"Ed25519", "Ed25519Cert"} -> ReadEd25519(buf, off)
    IN
    IF ~kind.ok THEN KeyErr(kind.err, kind.off, Len(buf)) ELSE
    KeyOk(PublicKeyOf(kt.val, kind.val, None), kind.off, Len(buf))

\* PublicKey::from_bytes
from_bytes(data) ==
    LET kt_name == read_string(data, 0) IN
    IF ~kt_name.ok THEN KeyErr(kt_name.err, kt_name.off, Len(data)) ELSE
    from_reader(kt_name.val, data, kt_name.off)

\* from_string without the comparison of the two names.
from_string_unchecked(contents) ==
    LET iter == split_whitespace(contents) IN
    IF Len(iter) < 2 THEN KeyErr(Err("InvalidFormat", <<>>).err, 0, 0) ELSE
    LET kt_name == iter[1]
        data    == iter[2]
        comment == IF Len(iter) >= 3 THEN Some(iter[3]) ELSE None
        kt      == KeyType_from_name(kt_name)
    IN
    IF ~kt.ok THEN KeyErr(kt.err, 0, 0) ELSE
    LET decoded == base64_decode(data) IN
    IF ~decoded.ok THEN KeyErr(decoded.err, 0, 0) ELSE
    LET kt_from_reader == read_string(decoded.val, 0) IN
    IF ~kt_from_reader.ok
    THEN KeyErr(kt_from_reader.err, kt_from_reader.off, Len(decoded.val)) ELSE
    LET k == from_reader(kt_name, decoded.val, kt_from_reader.off) IN
    IF ~k.ok THEN k ELSE
    KeyOk(PublicKeyOf(kt.val, k.val.kind, comment), k.off, k.len)

\* from_string decoding the base64 before it looks the name up.
from_string_decode_first(contents) ==
    LET iter == split_whitespace(contents) IN
    IF Len(iter) < 2 THEN KeyErr(Err("InvalidFormat", <<>>).err, 0, 0) ELSE
    LET kt_name == iter[1]
        data    == iter[2]
        comment == IF Len(iter) >= 3 THEN Some(iter[3]) ELSE None
        decoded == base64_decode(data)
    IN
    IF ~decoded.ok THEN KeyErr(decoded.err, 0, 0) ELSE
    LET kt == KeyType_from_name(kt_name) IN
    IF ~kt.ok THEN KeyErr(kt.err, 0, 0) ELSE
    LET kt_from_reader == read_string(decoded.val, 0) IN
    IF ~kt_from_reader.ok
    THEN KeyErr(kt_from_reader.err, kt_from_reader.off, Len(decoded.val)) ELSE
    IF kt_name # kt_from_reader.val
    THEN KeyErr(Err("KeyTypeMismatch", <<>>).err, kt_from_reader.off, Len(decoded.val)) ELSE
    LET k == from_reader(kt_name, decoded.val, kt_from_reader.off) IN
    IF ~k.ok THEN k ELSE
    KeyOk(PublicKeyOf(kt.val, k.val.kind, comment), k.off, k.len)

\* PublicKey::from_string
from_string(contents) ==
    LET iter == split_whitespace(contents) IN
    IF Len(iter) < 1 THEN KeyErr(Err("InvalidFormat", <<>>).err, 0, 0) ELSE
    LET kt_name == iter[1] IN
    IF Len(iter) < 2 THEN KeyErr(Err("InvalidFormat", <<>>).err, 0, 0) ELSE
    LET data    == iter[2]
        comment == IF Len(iter) >= 3 THEN Some(iter[3]) ELSE None
        kt      == KeyType_from_name(kt_name)
    IN
    IF ~kt.ok THEN KeyErr(kt.err, 0, 0) ELSE
    LET decoded == base64_decode(data) IN
    IF ~decoded.ok THEN KeyErr(decoded.err, 0, 0) ELSE
    LET kt_from_reader == read_string(decoded.val, 0) IN
    IF ~kt_from_reader.ok
    THEN KeyErr(kt_from_reader.err, kt_from_reader.off, Len(decoded.val)) ELSE
    IF kt_name # kt_from_reader.val
    THEN KeyErr(Err("KeyTypeMismatch", <<>>).err, kt_from_reader.off, Len(decoded.val)) ELSE
    LET k == from_reader(kt_name, decoded.val, kt_from_reader.off) IN
    IF ~k.ok THEN k ELSE
    KeyOk(PublicKeyOf(kt.val, k.val.kind, comment), k.off, k.len)

\* PublicKey::bits
bits(self) ==
    CASE self.kind.tag = "Rsa"     -> Len(self.kind.n) * 8
      [] self.kind.tag = "Dsa"     -> Len(self.kind.p) * 8
      [] self.kind.tag = "Ecdsa"   ->
            ( CASE self.kind.curve.kind = "Nistp256" -> 256
                [] self.kind.curve.kind = "Nistp384" -> 384
                [] self.kind.curve.kind = "Nistp521" -> 521 )
      [] self.kind.tag = "Ed25519" -> 256

\* encode writing the modulus of an Rsa key before its exponent.
encode_swapped(self) ==
    LET w == write_string(Writer_new, self.key_type.plain)
        k == self.kind
    IN  into_bytes(
          CASE k.tag = "Rsa"     -> write_mpint(write_mpint(w, k.n), k.e)
            [] k.tag = "Dsa"     ->
                  write_mpint(write_mpint(write_mpint(write_mpint(w, k.p), k.q), k.g), k.y)
            [] k.tag = "Ecdsa"   -> write_bytes(write_string(w, k.curve.identifier), k.key)
            [] k.tag = "Ed25519" -> write_bytes(w, k.key))

\* encode writing the name of the key type, which is the certificate name
\* of a key decoded under a certificate key type.
encode_cert_name(self) ==
    LET w == write_string(Writer_new, self.key_type.name)
        k == self.kind
    IN  into_bytes(
          CASE k.tag = "Rsa"     -> write_mpint(write_mpint(w, k.e), k.n)
            [] k.tag = "Dsa"     ->
                  write_mpint(write_mpint(write_mpint(write_mpint(w, k.p), k.q), k.g), k.y)
            [] k.tag = "Ecdsa"   -> write_bytes(write_string(w, k.curve.identifier), k.key)
            [] k.tag = "Ed25519" -> write_bytes(w, k.key))

\* PublicKey::encode
encode(self) ==
    LET w == write_string(Writer_new, self.key_type.plain)
        k == self.kind
    IN  into_bytes(
          CASE k.tag = "Rsa"     -> write_mpint(write_mpint(w, k.e), k.n)
            [] k.tag = "Dsa"     ->
                  write_mpint(write_mpint(write_mpint(write_mpint(w, k.p), k.q), k.g), k.y)
            [] k.tag = "Ecdsa"   -> write_bytes(write_string(w, k.curve.identifier), k.key)
            [] k.tag = "Ed25519" -> write_bytes(w, k.key))

\* PublicKey::fingerprint_with
fingerprint_with(self, kind) == Fingerprint_compute(kind, encode(self))

\* PublicKey::fingerprint
fingerprint(self) == fingerprint_with(self, "Sha256")

-----------------------------------------------------------------------------
(* The inputs: wire bodies and texts. *)

\* The byte strings of length n over ByteVals.
RECURSIVE SeqsOfLen(_)
SeqsOfLen(n) ==
    IF n = 0 THEN { <<>> }
    ELSE { <<b>> \o t : b \in ByteVals, t \in SeqsOfLen(n - 1) }

Payloads(max) == UNION { SeqsOfLen(n) : n \in 0..max }

\* The tuples of k payloads of at most `budget` bytes in all.
RECURSIVE FieldTuples(_, _)
FieldTuples(k, budget) ==
    IF k = 0 THEN { <<>> }
    ELSE UNION { { <<f>> \o rest : rest \in FieldTuples(k - 1, budget - Len(f)) } :
                 f \in Payloads(budget) }

\* A payload as it is on the wire: its length, then its bytes.
Blob(b) == write_bytes(<<>>, b)

RECURSIVE Blobs(_)
Blobs(t) == IF Len(t) = 0 THEN <<>> ELSE Blob(t[1]) \o Blobs(Tail(t))

\* The number of length-prefixed fields that follow the name (and, for
\* Ecdsa, the curve identifier) in the body of a key of a family.
FieldCount(family) ==
    CASE family = "Rsa"     -> 2
      [] family = "Dsa"     -> 4
      [] family = "Ecdsa"   -> 1
      [] family = "Ed25519" -> 1

CurveIds == { nistp256, nistp384, nistp521, nistp999 }

\* The bodies that carry the name of key type kt: the name, the curve
\* identifier of an Ecdsa key, and the fields, each with any payload.
BodiesOf(kt, budget) ==
    LET heads == IF Family(kt.kind) = "Ecdsa"
                 THEN { Blob(kt.name) \o Blob(id) : id \in CurveIds }
                 ELSE { Blob(kt.name) }
    IN  { h \o Blobs(t) : h \in heads, t \in FieldTuples(FieldCount(Family(kt.kind)), budget) }

\* The bodies whose name is no key type.
BogusBodies(budget) == { Blob(ssh_bogus) \o Blobs(t) : t \in FieldTuples(1, budget) }

Bodies(budget) == BogusBodies(budget) \cup UNION { BodiesOf(kt, budget) : kt \in KeyTypes }

\* The bodies followed by a byte that belongs to no field.
WithTrailing(B) == { b \o <<1>> : b \in B }

\* Every prefix of a body, the body itself included.
Cuts(b) == { SubSeq(b, 1, n) : n \in 0..Len(b) }

\* ' ', and a tab followed by a space
Separators == { <<32>>, <<9, 32>> }

\* "a" and "b@c"
CommentWords == << <<97>>, <<98, 64, 99>> >>

\* The comment of n words: the words in turn, each after a space.
RECURSIVE CommentOf(_)
CommentOf(n) ==
    IF n = 0 THEN <<>>
    ELSE CommentOf(n - 1) \o <<32>> \o CommentWords[1 + ((n - 1) % 2)]

\* The key types whose bodies are put in texts.
TextKeyTypes == { kt \in KeyTypes : kt.plain \in { ssh_rsa, ssh_dss, ssh_ed25519 } }

\* "!!!!", which is not base64, and "AAA", which is no whole group
BadTokens == { <<33, 33, 33, 33>>, <<65, 65, 65>> }

\* The texts of at least two tokens on a body of key type kt: a label, a
\* body token, a comment.  The label is the name in the body or another
\* name; the token is the base64 of the body, or no base64 at all.
KeyTextsOf(kt) ==
    { label \o sep \o token \o CommentOf(n) :
        label \in { kt.name, ssh_rsa, ssh_bogus },
        sep   \in Separators,
        token \in { base64_encode(b) : b \in BodiesOf(kt, MaxSmallTotal) } \cup BadTokens,
        n     \in 0..MaxCommentTokens }

\* The texts of fewer than two tokens.
ShortTexts == { <<>>, <<32>>, <<10>>, ssh_rsa, <<32>> \o ssh_rsa \o <<10>>, ssh_bogus }

\* The text of a body under the name the body was built with.
TextOf(name, b) == name \o <<32>> \o base64_encode(b)

\* The inputs of a run: the bytes given to from_bytes and the text given to
\* from_string.  Whole bodies; bodies cut short, as bytes and in a text; texts.
Inputs ==
    { [data |-> b, contents |-> <<>>] :
        b \in Bodies(MaxTotal) \cup WithTrailing(Bodies(MaxTotal - 1)) }
    \cup UNION { { [data |-> c, contents |-> TextOf(kt.name, c)] :
                     c \in UNION { Cuts(b) : b \in BodiesOf(kt, MaxSmallTotal) } } :
                 kt \in KeyTypes }
    \cup { [data |-> c, contents |-> TextOf(ssh_bogus, c)] :
             c \in UNION { Cuts(b) : b \in BogusBodies(MaxSmallTotal) } }
    \cup { [data |-> <<>>, contents |-> t] :
             t \in ShortTexts \cup UNION { KeyTextsOf(kt) : kt \in TextKeyTypes } }

-----------------------------------------------------------------------------
(* The state machine: one input, decoded by from_bytes or by from_string;  *)
(* a key decoded by from_bytes is then encoded, decoded and encoded again, *)
(* or measured, or fingerprinted.                                          *)

VARIABLES
    pc,        \* the call made last
    data,      \* the bytes given to from_bytes
    contents,  \* the text given to from_string
    key,       \* the Result<PublicKey> of from_bytes or from_string
    encoded,   \* key.encode()
    key2,      \* from_bytes(encoded)
    encoded2,  \* key2.encode()
    nbits,     \* key.bits()
    fp,        \* key.fingerprint() or key.fingerprint_with(kind)
    shown      \* the Display form of fp

vars == <<pc, data, contents, key, encoded, key2, encoded2, nbits, fp, shown>>

\* The value of a variable no call has set.
Unset == <<>>

Init ==
    /\ pc = "start"
    /\ \E i \in Inputs : data = i.data /\ contents = i.contents
    /\ key = Unset
    /\ encoded = Unset
    /\ key2 = Unset
    /\ encoded2 = Unset
    /\ nbits = 0
    /\ fp = Unset
    /\ shown = Unset

CallFromBytes ==
    /\ pc = "start"
    /\ key' = from_bytes(data)
    /\ pc' = "from_bytes"
    /\ UNCHANGED <<data, contents, encoded, key2, encoded2, nbits, fp, shown>>

CallFromString ==
    /\ pc = "start"
    /\ key' = from_string(contents)
    /\ pc' = "from_string"
    /\ UNCHANGED <<data, contents, encoded, key2, encoded2, nbits, fp, shown>>

CallEncode ==
    /\ pc = "from_bytes"
    /\ key.ok
    /\ encoded' = encode(key.val)
    /\ pc' = "encode"
    /\ UNCHANGED <<data, contents, key, key2, encoded2, nbits, fp, shown>>

Redecode ==
    /\ pc = "encode"
    /\ key2' = from_bytes(encoded)
    /\ pc' = "redecode"
    /\ UNCHANGED <<data, contents, key, encoded, encoded2, nbits, fp, shown>>

Reencode ==
    /\ pc = "redecode"
    /\ key2.ok
    /\ encoded2' = encode(key2.val)
    /\ pc' = "reencode"
    /\ UNCHANGED <<data, contents, key, encoded, key2, nbits, fp, shown>>

CallBits ==
    /\ pc = "from_bytes"
    /\ key.ok
    /\ nbits' = bits(key.val)
    /\ pc' = "bits"
    /\ UNCHANGED <<data, contents, key, encoded, key2, encoded2, fp, shown>>

CallFingerprint ==
    /\ pc = "from_bytes"
    /\ key.ok
    /\ fp' = fingerprint(key.val)
    /\ pc' = "fingerprint"
    /\ UNCHANGED <<data, contents, key, encoded, key2, encoded2, nbits, shown>>

CallFingerprintWith ==
    /\ pc = "from_bytes"
    /\ key.ok
    /\ \E kind \in FingerprintKinds : fp' = fingerprint_with(key.val, kind)
    /\ pc' = "fingerprint_with"
    /\ UNCHANGED <<data, contents, key, encoded, key2, encoded2, nbits, shown>>

Display ==
    /\ pc \in {"fingerprint", "fingerprint_with"}
    /\ shown' = Fingerprint_Display(fp)
    /\ pc' = "display"
    /\ UNCHANGED <<data, contents, key, encoded, key2, encoded2, nbits, fp>>

Next ==
    \/ CallFromBytes
    \/ CallFromString
    \/ CallEncode
    \/ Redecode
    \/ Reencode
    \/ CallBits
    \/ CallFingerprint
    \/ CallFingerprintWith
    \/ Display

Spec == Init /\ [][Next]_vars

-----------------------------------------------------------------------------
(* The vocabulary of the properties. *)

\* The length-prefixed fields of a body, read one after the other for as
\* long as one can be read, and the offset where reading stopped.
RECURSIVE WireFrom(_, _)
WireFrom(buf, off) ==
    LET r == read_bytes(buf, off) IN
    IF ~r.ok THEN [fields |-> <<>>, off |-> off]
    ELSE LET rest == WireFrom(buf, r.off)
         IN  [fields |-> <<r.val>> \o rest.fields, off |-> rest.off]

Wire(buf) == WireFrom(buf, 0)

\* The fields are the whole body: nothing is cut short, nothing trails.
Complete(buf) == Wire(buf).off = Len(buf)

IsKeyTypeName(name) == \E kt \in KeyTypes : kt.name = name

KeyTypeNamed(name) == CHOOSE kt \in KeyTypes : kt.name = name

\* The number of fields of the body of a key of type kt, the name included.
Needed(kt) ==
    1 + FieldCount(Family(kt.kind)) + (IF Family(kt.kind) = "Ecdsa" THEN 1 ELSE 0)

\* An mpint as RFC 4251 writes it: no byte for zero, no high bit in the
\* first byte, and a leading 0x00 only in front of a byte with the high bit.
CanonicalMpint(m) ==
    \/ Len(m) = 0
    \/ m[1] \in 1..127
    \/ m[1] = 0 /\ Len(m) >= 2 /\ m[2] >= 128

\* The magnitude of a wire mpint: the bytes without the sign-padding byte.
Magnitude(m) ==
    IF Len(m) >= 2 /\ m[1] = 0 /\ m[2] >= 128 THEN Tail(m) ELSE m

\* A valid wire body: exactly the fields of a key of a registered type, the
\* mpints canonical, the curve identifier a registered curve.
ValidBody(buf) ==
    LET f == Wire(buf).fields IN
    /\ Complete(buf)
    /\ Len(f) >= 1
    /\ IsKeyTypeName(f[1])
    /\ Len(f) = Needed(KeyTypeNamed(f[1]))
    /\ LET family == Family(KeyTypeNamed(f[1]).kind) IN
       /\ family \in {"Rsa", "Dsa"} => \A i \in 2..Len(f) : CanonicalMpint(f[i])
       /\ family = "Ecdsa" => f[2] \in {nistp256, nistp384, nistp521}

\* A body of a registered type in which a field is missing or declares more
\* bytes than remain (the name itself included).
TruncatedBody(buf) ==
    LET f == Wire(buf).fields IN
    \/ Len(f) = 0
    \/ IsKeyTypeName(f[1]) /\ Len(f) < Needed(KeyTypeNamed(f[1]))

\* An Ecdsa body whose curve identifier is whole and is no registered curve.
UnknownCurveBody(buf) ==
    LET f == Wire(buf).fields IN
    /\ Len(f) >= 2
    /\ IsKeyTypeName(f[1])
    /\ Family(KeyTypeNamed(f[1]).kind) = "Ecdsa"
    /\ f[2] \notin {nistp256, nistp384, nistp521}

Decoded == pc \in {"from_bytes", "from_string"}

\* The tokens of the text given to from_string.
Tokens == split_whitespace(contents)

\* The body a text carries, where its second token is base64.
TextBody == base64_decode(Tokens[2])

\* The text with the whitespace at its two ends removed.
Trim(s) ==
    LET keep == { i \in 1..Len(s) : ~IsWhitespace(s[i]) } IN
    IF keep = {} THEN <<>>
    ELSE SubSeq(s, CHOOSE i \in keep : \A j \in keep : i <= j,
                   CHOOSE i \in keep : \A j \in keep : i >= j)

\* Everything after the second token of a text of two tokens or more: the
\* rest of the line, or nothing.
RestOfLine(s) ==
    LET ends == { i \in 1..Len(s) :
                    ~IsWhitespace(s[i]) /\ (i = Len(s) \/ IsWhitespace(s[i + 1])) }
        end2 == CHOOSE i \in ends : Cardinality({ j \in ends : j < i }) = 1
        rest == Trim(SubSeq(s, end2 + 1, Len(s)))
    IN  IF rest = <<>> THEN None ELSE Some(rest)

-----------------------------------------------------------------------------
(* The properties. *)

\* C1: round trip.  A key decoded from a valid wire body, encoded and
\* decoded again, is decoded successfully, with the same kind (the same
\* variant and the same bytes in every field) and the same family.
RoundTrip ==
    (pc = "redecode" /\ ValidBody(data)) =>
        /\ key2.ok
        /\ key2.val.kind = key.val.kind
        /\ Family(key2.val.key_type.kind) = Family(key.val.key_type.kind)

\* C1 witness: the round trip of a valid Rsa body whose modulus has the
\* high bit set and is sign-padded on the wire.
RoundTripWitness ==
    /\ pc = "redecode"
    /\ ValidBody(data)
    /\ key.val.kind.tag = "Rsa"
    /\ Wire(data).fields[3] = <<0, 128>>
    /\ key2.ok

\* C2: idempotent re-encoding.  For every body from_bytes accepts, the
\* encoding c of the key is accepted by from_bytes, and the key decoded
\* from c encodes to c again.
IdempotentEncode ==
    /\ pc \in {"redecode", "reencode"} => key2.ok
    /\ pc = "reencode" => encoded2 = encoded

\* C2 witness: the re-encoding of a body whose fields are whole, with an
\* mpint that is not canonical, so that the encoding differs from the body.
IdempotentEncodeWitness ==
    /\ pc = "reencode"
    /\ Complete(data)
    /\ encoded # data
    /\ key.val.kind.tag \in {"Rsa", "Dsa"}
    /\ \E i \in 2..Len(Wire(data).fields) : ~CanonicalMpint(Wire(data).fields[i])

\* A field written as an mpint: the bytes, or the bytes behind a 0x00.
WrittenMpint(w, m) == w = m \/ w = <<0>> \o m

\* C3: the encoding starts with the plain name of the key type, never the
\* certificate name, and the fields follow in the order of decoding.
EncodeLayout ==
    pc = "encode" =>
        LET f  == Wire(encoded).fields
            kt == key.val.key_type
            k  == key.val.kind
        IN  /\ Complete(encoded)
            /\ Len(f) = Needed(kt)
            /\ f[1] \in { ssh_rsa, ssh_dss, ecdsa_sha2_nistp256, ecdsa_sha2_nistp384,
                          ecdsa_sha2_nistp521, ssh_ed25519 }
            /\ kt.name \in { f[1], f[1] \o cert_suffix }
            /\ k.tag = "Rsa" => WrittenMpint(f[2], k.e) /\ WrittenMpint(f[3], k.n)
            /\ k.tag = "Dsa" =>
                  /\ WrittenMpint(f[2], k.p)
                  /\ WrittenMpint(f[3], k.q)
                  /\ WrittenMpint(f[4], k.g)
                  /\ WrittenMpint(f[5], k.y)
            /\ k.tag = "Ecdsa" => f[2] = k.curve.identifier /\ f[3] = k.key
            /\ k.tag = "Ed25519" => f[2] = k.key

\* C3 witness: the encoding of a Dsa key decoded under the certificate key
\* type, its four fields different.
EncodeLayoutWitness ==
    /\ pc = "encode"
    /\ key.val.key_type.kind = "DsaCert"
    /\ key.val.kind.p = <<1>>
    /\ key.val.kind.q = <<>>
    /\ key.val.kind.g = <<0>>
    /\ key.val.kind.y = <<128>>

\* The text has two tokens or more, a registered name first, base64 second,
\* and the body starts with a whole name.
LabelledBody ==
    /\ pc = "from_string"
    /\ Len(Tokens) >= 2
    /\ IsKeyTypeName(Tokens[1])
    /\ TextBody.ok
    /\ read_string(TextBody.val, 0).ok

\* C4: type mismatch.  When the name in the body differs from the first
\* token, from_string fails with KeyTypeMismatch; when the two are equal it
\* does not fail with KeyTypeMismatch.
TypeMismatch ==
    LabelledBody =>
        IF read_string(TextBody.val, 0).val # Tokens[1]
        THEN ~key.ok /\ key.err.kind = "KeyTypeMismatch"
        ELSE key.ok \/ key.err.kind # "KeyTypeMismatch"

\* C4 witness: the label ssh-rsa on a body whose name is ssh-dss.
TypeMismatchWitness ==
    /\ LabelledBody
    /\ Tokens[1] = ssh_rsa
    /\ read_string(TextBody.val, 0).val = ssh_dss
    /\ ~key.ok

\* C5: unknown type.  from_string on a text of two tokens or more whose
\* first token is no registered name fails with UnknownKeyType of that
\* name, whatever the second token; from_bytes on a body whose leading
\* string is no registered name fails with UnknownKeyType of that string.
UnknownType ==
    /\ (pc = "from_string" /\ Len(Tokens) >= 2 /\ ~IsKeyTypeName(Tokens[1])) =>
          ~key.ok /\ key.err = [kind |-> "UnknownKeyType", arg |-> Tokens[1]]
    /\ (pc = "from_bytes" /\ read_string(data, 0).ok
            /\ ~IsKeyTypeName(read_string(data, 0).val)) =>
          ~key.ok /\ key.err = [kind |-> "UnknownKeyType", arg |-> read_string(data, 0).val]

\* C5 witness: "ssh-bogus" in front of a token that is not base64.
UnknownTypeWitness ==
    /\ pc = "from_string"
    /\ Len(Tokens) >= 2
    /\ Tokens[1] = ssh_bogus
    /\ ~base64_decode(Tokens[2]).ok
    /\ ~key.ok

\* C6: tokenization.  A text of fewer than two tokens fails with
\* InvalidFormat, and the comment of a decoded key is everything after the
\* second token, absent when nothing follows it.
CommentIsRestOfLine ==
    pc = "from_string" =>
        /\ Len(Tokens) < 2 => ~key.ok /\ key.err.kind = "InvalidFormat"
        /\ key.ok => key.val.comment = RestOfLine(contents)

\* The error of a body cut short is InvalidFormat or Truncated, no key is
\* returned, and the reader stays within its buffer.
FailsAsTruncated ==
    /\ ~key.ok
    /\ key.err.kind \in {"InvalidFormat", "Truncated"}
    /\ key.off <= key.len

\* The body a call decoded: the bytes given to from_bytes, or the bytes of
\* the second token of a text whose first token is the name of a key type.
TruncatedInput ==
    \/ pc = "from_bytes" /\ TruncatedBody(data)
    \/ /\ pc = "from_string"
       /\ Len(Tokens) >= 2
       /\ IsKeyTypeName(Tokens[1])
       /\ TextBody.ok
       /\ TruncatedBody(TextBody.val)
       /\ Len(Wire(TextBody.val).fields) >= 1 => Wire(TextBody.val).fields[1] = Tokens[1]

\* The body of a truncated input.
InputBody == IF pc = "from_bytes" THEN data ELSE TextBody.val

\* C7 as claimed: every body of a registered type with a field missing or
\* cut short fails with InvalidFormat or Truncated.
TruncatedFails == TruncatedInput => FailsAsTruncated

\* C7 as amended: such a body fails with InvalidFormat or Truncated, unless
\* it is an Ecdsa body whose curve identifier is whole and unregistered,
\* which fails with UnknownCurve of that identifier; in both cases no key is
\* returned and the reader stays within its buffer.
TruncatedFailsOrUnknownCurve ==
    TruncatedInput =>
        IF UnknownCurveBody(InputBody)
        THEN /\ ~key.ok
             /\ key.err = [kind |-> "UnknownCurve", arg |-> Wire(InputBody).fields[2]]
             /\ key.off <= key.len
        ELSE FailsAsTruncated

\* C7 witness: a Dsa body cut within a later field, decoded by from_bytes.
TruncatedWitness ==
    /\ pc = "from_bytes"
    /\ TruncatedBody(data)
    /\ Len(Wire(data).fields) = 3
    /\ Wire(data).fields[1] = ssh_dss
    /\ Wire(data).off < Len(data)
    /\ ~key.ok

\* C8: the family of the key type of a decoded key is the tag of its kind,
\* the curve of an Ecdsa key is one of the three curves, and a key decoded
\* by from_bytes has no comment.
FamilyMatchesKind ==
    (Decoded /\ key.ok) =>
        /\ Family(key.val.key_type.kind) = key.val.kind.tag
        /\ key.val.kind.tag = "Ecdsa" =>
              key.val.kind.curve \in
                  { [kind |-> "Nistp256", identifier |-> nistp256],
                    [kind |-> "Nistp384", identifier |-> nistp384],
                    [kind |-> "Nistp521", identifier |-> nistp521] }
        /\ pc = "from_bytes" => key.val.comment = None

\* C8 witness: a Dsa key decoded by from_string under the certificate name.
FamilyMatchesKindWitness ==
    /\ pc = "from_string"
    /\ key.ok
    /\ key.val.key_type.kind = "DsaCert"
    /\ key.val.kind.tag = "Dsa"

\* The bits of a key decoded from the body `buf`, as claimed: 8 times the
\* length of the magnitude of the modulus (Rsa) or of p (Dsa), 256, 384 or
\* 521 by the curve (Ecdsa), 256 (Ed25519).
ClaimedBits(buf) ==
    LET f      == Wire(buf).fields
        family == Family(KeyTypeNamed(f[1]).kind)
    IN  CASE family = "Rsa"     -> 8 * Len(Magnitude(f[3]))
          [] family = "Dsa"     -> 8 * Len(Magnitude(f[2]))
          [] family = "Ecdsa"   -> ( CASE f[2] = nistp256 -> 256
                                       [] f[2] = nistp384 -> 384
                                       [] f[2] = nistp521 -> 521 )
          [] family = "Ed25519" -> 256

\* C9: bits() of a key decoded from a body is the size claimed, the
\* sign-padding byte of the modulus or of p not counted.
BitsOfMagnitude == pc = "bits" => nbits = ClaimedBits(data)

\* The padding of a base64 text of n characters without its padding.
Padding(n) == [i \in 1..((4 - (n % 4)) % 4) |-> PadChar]

\* C10: the digest text of a fingerprint is the base64 of the digest of the
\* encoding of the key without its padding: no '=' in it, and 43, 64 or 86
\* characters; fingerprint() is the Sha256 fingerprint; the display form
\* is the name of the hash, a colon, the digest text.
FingerprintText ==
    /\ pc \in {"fingerprint", "fingerprint_with"} =>
          /\ \A i \in 1..Len(fp.hash) : fp.hash[i] # PadChar
          /\ Len(fp.hash) = ( CASE fp.kind = "Sha256" -> 43
                                [] fp.kind = "Sha384" -> 64
                                [] fp.kind = "Sha512" -> 86 )
          /\ fp.hash \o Padding(Len(fp.hash))
                = base64_encode(Digest(fp.kind, encode(key.val)))
    /\ pc = "fingerprint" => fp.kind = "Sha256"
    /\ pc = "display" =>
          /\ shown = FingerprintKind_Display(fp.kind) \o <<Colon>> \o fp.hash
          /\ fp.kind = "Sha256" => SubSeq(shown, 1, 7) = SHA256 \o <<Colon>>

\* C10 witness: the Sha256 fingerprint of an Rsa key, displayed.
FingerprintTextWitness ==
    /\ pc = "display"
    /\ fp.kind = "Sha256"
    /\ key.val.kind.tag = "Rsa"
    /\ Len(fp.hash) = 43

====
